---- MODULE Spec2Model ----
(***************************************************************************)
(* A model of tor_scraper.TorScraper (src/tor_scraper.py): the scrape      *)
(* queue, the thread that executes run(), the Tor processes it launches    *)
(* and kills, and the worker threads executing _tor_worker.                *)
(*                                                                         *)
(* Strings that the code builds (str(port), data_directory + str(index))   *)
(* are sequences of one-character strings.  The Python value None is the   *)
(* string "None"; no url, context, handler or response body equals it.     *)
(***************************************************************************)
EXTENDS Integers, Sequences, FiniteSets, TLC

\* ---------------------------------------------------------------- bounds
MaxThreads == 2          \* largest config['thread_count'] explored
MaxTasks == 2            \* largest number of add_scrape calls explored

\* ----------------------------------------------------------- the config
\* The values of the example config in the module docstring.
socks_port_offset == 9250
control_port_offset == 9350
data_directory == <<"t", "o", "r", "_", "d", "a", "t", "a", "/">>
PublicIpUrlExample == "https://api.ipify.org"

None == "None"

\* A config dict: public_ip_url is '', a url, or the key is missing.
Configs ==
    UNION { { [thread_count |-> n, public_ip_url |-> ""],
              [thread_count |-> n, public_ip_url |-> PublicIpUrlExample],
              [thread_count |-> n] } : n \in 1..MaxThreads }

\* ------------------------------------------------------ add_scrape inputs
\* The calls add_scrape(url, context, handler) the application makes: one
\* with the defaults context=None, handler=None, and one with a context
\* and a callback of its own.
ScrapeArgs ==
    { [url |-> "u1", context |-> None, handler |-> None],
      [url |-> "u2", context |-> "ctx", handler |-> "custom_handler"] }

\* What the site behind a url answers when the fetch succeeds.
Response(url) == IF url = "u1" THEN "bytes1" ELSE "bytes2"

\* The thread indices of range(thread_count) for the largest config.
Threads == 0..(MaxThreads - 1)

NoScrape == [id |-> 0, url |-> None, context |-> None, handler |-> None]

VARIABLES
    config,            \* self._config
    scrape_queue,      \* self._scrape_queue: the items, head first
    unfinished_tasks,  \* Queue.unfinished_tasks (put +1, task_done -1)
    runPc,             \* where the thread executing run() is
    index,             \* the loop variable of the loop run() is in
    tor_processes,     \* run's list tor_processes (process = its index)
    tor_threads,       \* run's list tor_threads (thread = its index)
    error,             \* the exception that left run(), "" when none
    alive,             \* the launched Tor processes still running
    kills,             \* the kill() calls made, in order
    launches,          \* the launch_tor_with_config calls made, in order
    launch_failed,     \* the indices whose launch raised
    probes,            \* the public-IP queries made, in order
    pc,                \* where each worker thread is
    scrape,            \* each worker's local variable scrape
    result,            \* each worker's local variable result
    enqueued,          \* every item ever put on the queue, in order
    preRun,            \* how many items were put before run() was called
    fetches,           \* the _query calls made by workers
    handled            \* the handler calls made by workers, in order

vars == <<config, scrape_queue, unfinished_tasks, runPc, index, tor_processes,
          tor_threads, error, alive, kills, launches, launch_failed, probes,
          pc, scrape, result, enqueued, preRun, fetches, handled>>

queueVars == <<scrape_queue, unfinished_tasks, enqueued>>
runVars == <<runPc, index, tor_processes, tor_threads, error, alive, kills,
             launches, launch_failed, probes, preRun>>
workerVars == <<pc, scrape, result, fetches, handled>>

\* ------------------------------------------------------------- helpers
Digits == <<"0", "1", "2", "3", "4", "5", "6", "7", "8", "9">>

\* str(n) for a non-negative int.
RECURSIVE Str(_)
Str(n) ==
    IF n < 10 THEN <<Digits[n + 1]>>
    ELSE Str(n \div 10) \o <<Digits[(n % 10) + 1]>>

\* LaunchConfig with one data directory for every process: the index is
\* not appended.
LaunchConfig_shared_directory(i) ==
    [SocksPort |-> Str(socks_port_offset + i),
     ControlPort |-> Str(control_port_offset + i),
     DataDirectory |-> data_directory]

\* The config dict handed to stem.process.launch_tor_with_config.
LaunchConfig(i) ==
    [SocksPort |-> Str(socks_port_offset + i),
     ControlPort |-> Str(control_port_offset + i),
     DataDirectory |-> data_directory \o Str(i)]

\* _query: what curl.perform() through the proxy on socks_port can give.
\* A pycurl.error is caught and None returned; with no Tor process
\* listening on the port the connection always fails.
query(url, socks_port) ==
    IF \E p \in alive : socks_port_offset + p = socks_port
    THEN {Response(url), None}
    ELSE {None}

\* Whether calling the handler can raise: _default_handler only logs,
\* a caller-supplied callback may raise.
HandlerOutcomes(handler) ==
    IF handler = "_default_handler" THEN {"returns"}
    ELSE {"returns", "raises"}

\* ---------------------------------------------------------------- Init
Init ==
    /\ config \in Configs
    /\ scrape_queue = <<>>
    /\ unfinished_tasks = 0
    /\ runPc = "idle"
    /\ index = 0
    /\ tor_processes = <<>>
    /\ tor_threads = <<>>
    /\ error = ""
    /\ alive = {}
    /\ kills = <<>>
    /\ launches = <<>>
    /\ launch_failed = {}
    /\ probes = <<>>
    /\ pc = [w \in Threads |-> "unstarted"]
    /\ scrape = [w \in Threads |-> NoScrape]
    /\ result = [w \in Threads |-> None]
    /\ enqueued = <<>>
    /\ preRun = 0
    /\ fetches = {}
    /\ handled = <<>>

\* ---------------------------------------------------------- add_scrape
\* add_scrape(url, context, handler), called by the embedding application.
add_scrape(url, context, handler) ==
    /\ Len(enqueued) < MaxTasks
    /\ runPc \notin {"returned", "raised"}
    /\ LET h == IF handler = None THEN "_default_handler" ELSE handler
           item == [id |-> Len(enqueued) + 1, url |-> url,
                    context |-> context, handler |-> h]
       IN /\ scrape_queue' = Append(scrape_queue, item)
          /\ enqueued' = Append(enqueued, item)
    /\ unfinished_tasks' = unfinished_tasks + 1
    /\ UNCHANGED <<config, runVars, workerVars>>

\* ------------------------------------------------------------------ run
\* run() is called.
run_call ==
    /\ runPc = "idle"
    /\ runPc' = "launch"
    /\ index' = 0
    /\ preRun' = Len(enqueued)
    /\ UNCHANGED <<config, queueVars, tor_processes, tor_threads, error,
                   alive, kills, launches, launch_failed, probes, workerVars>>

\* The end of one iteration of the loop that starts the Tor processes.
NextLaunch ==
    IF index + 1 < config.thread_count
    THEN runPc' = "launch" /\ index' = index + 1
    ELSE runPc' = "start" /\ index' = 0

\* run_launch_tor with the launch failure caught and logged instead of
\* leaving run(): the loop goes on with the next index.
run_launch_tor_swallowed ==
    /\ runPc = "launch"
    /\ launches' = Append(launches, LaunchConfig(index))
    /\ \E ok \in BOOLEAN :
         /\ IF ok
            THEN /\ tor_processes' = Append(tor_processes, index)
                 /\ alive' = alive \cup {index}
                 /\ UNCHANGED launch_failed
            ELSE /\ launch_failed' = launch_failed \cup {index}
                 /\ UNCHANGED <<tor_processes, alive>>
         /\ NextLaunch
    /\ UNCHANGED <<config, queueVars, tor_threads, error, kills, probes,
                   preRun, workerVars>>

\* One iteration of "Start Tor processes" up to the public-IP query:
\* launch_tor_with_config returns the process once Tor has bootstrapped, or
\* raises OSError (stem has then ended the process it was starting); the
\* exception leaves run().  Then self._config['public_ip_url'] is read,
\* which raises KeyError when the key is missing.
run_launch_tor ==
    /\ runPc = "launch"
    /\ launches' = Append(launches, LaunchConfig(index))
    /\ \E ok \in BOOLEAN :
         IF ~ok
         THEN /\ launch_failed' = launch_failed \cup {index}
              /\ error' = "OSError"
              /\ runPc' = "raised"
              /\ UNCHANGED <<index, tor_processes, alive>>
         ELSE /\ tor_processes' = Append(tor_processes, index)
              /\ alive' = alive \cup {index}
              /\ UNCHANGED launch_failed
              /\ IF "public_ip_url" \notin DOMAIN config
                 THEN error' = "KeyError" /\ runPc' = "raised"
                      /\ UNCHANGED index
                 ELSE IF config.public_ip_url # ""
                 THEN runPc' = "probe" /\ UNCHANGED <<index, error>>
                 ELSE NextLaunch /\ UNCHANGED error
    /\ UNCHANGED <<config, queueVars, tor_threads, kills, probes, preRun,
                   workerVars>>

\* "Log public IP thru Tor": 'Public IP: ' + self._query(url, port).  When
\* _query returns None the concatenation raises TypeError, which leaves
\* run().
run_public_ip ==
    /\ runPc = "probe"
    /\ \E r \in query(config.public_ip_url, socks_port_offset + index) :
         /\ probes' = Append(probes, [socks_port |-> socks_port_offset + index,
                                      result |-> r])
         /\ IF r = None
            THEN error' = "TypeError" /\ runPc' = "raised" /\ UNCHANGED index
            ELSE NextLaunch /\ UNCHANGED error
    /\ UNCHANGED <<config, queueVars, tor_processes, tor_threads, alive,
                   kills, launches, launch_failed, preRun, workerVars>>

\* One iteration of "Start Tor threads": the thread starts at the top of
\* _tor_worker's loop.
run_start_thread ==
    /\ runPc = "start"
    /\ pc' = [pc EXCEPT ![index] = "get"]
    /\ tor_threads' = Append(tor_threads, index)
    /\ IF index + 1 < config.thread_count
       THEN index' = index + 1 /\ UNCHANGED runPc
       ELSE index' = 0 /\ runPc' = "join"
    /\ UNCHANGED <<config, queueVars, tor_processes, error, alive, kills,
                   launches, launch_failed, probes, preRun, scrape, result,
                   fetches, handled>>

\* A thread has terminated: its function returned or an exception left it.
Terminated(w) == pc[w] \in {"done", "dead"}

\* run_join with a join that does not wait for the thread.
run_join_nowait ==
    /\ runPc = "join"
    /\ IF index + 1 < Len(tor_threads)
       THEN index' = index + 1 /\ UNCHANGED runPc
       ELSE index' = 0 /\ runPc' = "kill"
    /\ UNCHANGED <<config, queueVars, tor_processes, tor_threads, error,
                   alive, kills, launches, launch_failed, probes, preRun,
                   workerVars>>

\* One iteration of "Wait for Tor threads to finish": join() returns once
\* the thread has terminated.
run_join ==
    /\ runPc = "join"
    /\ Terminated(tor_threads[index + 1])
    /\ IF index + 1 < Len(tor_threads)
       THEN index' = index + 1 /\ UNCHANGED runPc
       ELSE index' = 0 /\ runPc' = "kill"
    /\ UNCHANGED <<config, queueVars, tor_processes, tor_threads, error,
                   alive, kills, launches, launch_failed, probes, preRun,
                   workerVars>>

\* One iteration of "Kill Tor processes"; after the last one run() returns.
run_kill ==
    /\ runPc = "kill"
    /\ kills' = Append(kills, tor_processes[index + 1])
    /\ alive' = alive \ {tor_processes[index + 1]}
    /\ IF index + 1 < Len(tor_processes)
       THEN index' = index + 1 /\ UNCHANGED runPc
       ELSE index' = 0 /\ runPc' = "returned"
    /\ UNCHANGED <<config, queueVars, tor_processes, tor_threads, error,
                   launches, launch_failed, probes, preRun, workerVars>>

\* ---------------------------------------------------------- _tor_worker
\* tor_worker_get without the except clause: Queue.Empty ends the thread
\* as an uncaught exception.
tor_worker_get_uncaught(w) ==
    /\ pc[w] = "get"
    /\ IF scrape_queue = <<>>
       THEN /\ pc' = [pc EXCEPT ![w] = "dead"]
            /\ UNCHANGED <<scrape_queue, scrape>>
       ELSE /\ scrape' = [scrape EXCEPT ![w] = Head(scrape_queue)]
            /\ scrape_queue' = Tail(scrape_queue)
            /\ pc' = [pc EXCEPT ![w] = "query"]
    /\ UNCHANGED <<config, unfinished_tasks, enqueued, runVars, result,
                   fetches, handled>>

\* tor_worker_get with a blocking get(): on the empty queue the worker
\* waits for an item instead of leaving the loop.
tor_worker_get_blocking(w) ==
    /\ pc[w] = "get"
    /\ scrape_queue # <<>>
    /\ scrape' = [scrape EXCEPT ![w] = Head(scrape_queue)]
    /\ scrape_queue' = Tail(scrape_queue)
    /\ pc' = [pc EXCEPT ![w] = "query"]
    /\ UNCHANGED <<config, unfinished_tasks, enqueued, runVars, result,
                   fetches, handled>>

\* tor_worker_get on a LifoQueue: the item put last is taken.
tor_worker_get_lifo(w) ==
    /\ pc[w] = "get"
    /\ IF scrape_queue = <<>>
       THEN /\ pc' = [pc EXCEPT ![w] = "done"]
            /\ UNCHANGED <<scrape_queue, scrape>>
       ELSE /\ scrape' = [scrape EXCEPT ![w] = scrape_queue[Len(scrape_queue)]]
            /\ scrape_queue' = SubSeq(scrape_queue, 1, Len(scrape_queue) - 1)
            /\ pc' = [pc EXCEPT ![w] = "query"]
    /\ UNCHANGED <<config, unfinished_tasks, enqueued, runVars, result,
                   fetches, handled>>

\* tor_worker_query through the proxy of the first circuit for every
\* worker: the index is not added to socks_port_offset.
tor_worker_query_first_port(w) ==
    /\ pc[w] = "query"
    /\ \E r \in query(scrape[w].url, socks_port_offset) :
         /\ result' = [result EXCEPT ![w] = r]
         /\ fetches' = fetches \cup {[id |-> scrape[w].id, worker |-> w,
                                        socks_port |-> socks_port_offset,
                                        result |-> r]}
    /\ pc' = [pc EXCEPT ![w] = "handler"]
    /\ UNCHANGED <<config, queueVars, runVars, scrape, handled>>

\* tor_worker_get that reads the head item and leaves it in the queue.
tor_worker_get_peek(w) ==
    /\ pc[w] = "get"
    /\ IF scrape_queue = <<>>
       THEN /\ pc' = [pc EXCEPT ![w] = "done"]
            /\ UNCHANGED scrape
       ELSE /\ scrape' = [scrape EXCEPT ![w] = Head(scrape_queue)]
            /\ pc' = [pc EXCEPT ![w] = "query"]
    /\ UNCHANGED <<config, queueVars, runVars, result, fetches, handled>>

\* self._scrape_queue.get(False): Queue.Empty breaks the loop and the
\* thread's function returns; otherwise the head item is taken.
tor_worker_get(w) ==
    /\ pc[w] = "get"
    /\ IF scrape_queue = <<>>
       THEN /\ pc' = [pc EXCEPT ![w] = "done"]
            /\ UNCHANGED <<scrape_queue, scrape>>
       ELSE /\ scrape' = [scrape EXCEPT ![w] = Head(scrape_queue)]
            /\ scrape_queue' = Tail(scrape_queue)
            /\ pc' = [pc EXCEPT ![w] = "query"]
    /\ UNCHANGED <<config, unfinished_tasks, enqueued, runVars, result,
                   fetches, handled>>

\* result = self._query(scrape['url'], socks_port_offset + index)
tor_worker_query(w) ==
    /\ pc[w] = "query"
    /\ \E r \in query(scrape[w].url, socks_port_offset + w) :
         /\ result' = [result EXCEPT ![w] = r]
         /\ fetches' = fetches \cup {[id |-> scrape[w].id, worker |-> w,
                                        socks_port |-> socks_port_offset + w,
                                        result |-> r]}
    /\ pc' = [pc EXCEPT ![w] = "handler"]
    /\ UNCHANGED <<config, queueVars, runVars, scrape, handled>>

\* tor_worker_handler with a retry: a failed fetch puts the item back on
\* the queue instead of calling the handler.
tor_worker_handler_retry(w) ==
    /\ pc[w] = "handler"
    /\ IF result[w] = None
       THEN /\ scrape_queue' = Append(scrape_queue, scrape[w])
            /\ pc' = [pc EXCEPT ![w] = "get"]
            /\ UNCHANGED <<handled, unfinished_tasks>>
       ELSE /\ handled' = Append(handled, [id |-> scrape[w].id, worker |-> w,
                                           url |-> scrape[w].url,
                                           context |-> scrape[w].context,
                                           result |-> result[w],
                                           outcome |-> "returns"])
            /\ pc' = [pc EXCEPT ![w] = "get"]
            /\ unfinished_tasks' = unfinished_tasks - 1
            /\ UNCHANGED scrape_queue
    /\ UNCHANGED <<config, enqueued, runVars, scrape, result, fetches>>

\* scrape['handler'](scrape['url'], scrape['context'], result), then
\* task_done() and back to the top of the loop.  Nothing in _tor_worker
\* catches an exception of the handler: it ends the thread.
tor_worker_handler(w) ==
    /\ pc[w] = "handler"
    /\ \E outcome \in HandlerOutcomes(scrape[w].handler) :
         /\ handled' = Append(handled, [id |-> scrape[w].id, worker |-> w,
                                        url |-> scrape[w].url,
                                        context |-> scrape[w].context,
                                        result |-> result[w],
                                        outcome |-> outcome])
         /\ IF outcome = "raises"
            THEN /\ pc' = [pc EXCEPT ![w] = "dead"]
                 /\ UNCHANGED unfinished_tasks
            ELSE /\ pc' = [pc EXCEPT ![w] = "get"]
                 /\ unfinished_tasks' = unfinished_tasks - 1
    /\ UNCHANGED <<config, scrape_queue, enqueued, runVars, scrape, result,
                   fetches>>

\* ---------------------------------------------------------------- Next
Next ==
    \/ \E a \in ScrapeArgs : add_scrape(a.url, a.context, a.handler)
    \/ run_call
    \/ run_launch_tor
    \/ run_public_ip
    \/ run_start_thread
    \/ run_join
    \/ run_kill
    \/ \E w \in Threads : tor_worker_get(w)
    \/ \E w \in Threads : tor_worker_query(w)
    \/ \E w \in Threads : tor_worker_handler(w)

Spec == Init /\ [][Next]_vars

\* The closed batch: the application puts every item before it calls
\* run(), as in the example of the module docstring.
add_scrape_before_run(url, context, handler) ==
    /\ runPc = "idle"
    /\ add_scrape(url, context, handler)

NextBatch ==
    \/ \E a \in ScrapeArgs : add_scrape_before_run(a.url, a.context, a.handler)
    \/ run_call
    \/ run_launch_tor
    \/ run_public_ip
    \/ run_start_thread
    \/ run_join
    \/ run_kill
    \/ \E w \in Threads : tor_worker_get(w)
    \/ \E w \in Threads : tor_worker_query(w)
    \/ \E w \in Threads : tor_worker_handler(w)

\* A step of the thread executing run(), once run() was called.
run_step ==
    \/ run_launch_tor
    \/ run_public_ip
    \/ run_start_thread
    \/ run_join
    \/ run_kill

\* A step of the worker thread with this index.
tor_worker_step(w) ==
    \/ tor_worker_get(w)
    \/ tor_worker_query(w)
    \/ tor_worker_handler(w)

\* The thread executing run() and every started worker thread keep being
\* scheduled, and every call they make (launch, _query, handler, join of a
\* terminated thread, kill) comes back.
Fairness ==
    /\ WF_vars(run_step)
    /\ \A w \in Threads : WF_vars(tor_worker_step(w))

FairBatchSpec == Init /\ [][NextBatch]_vars /\ Fairness

TypeOK ==
    /\ config \in Configs
    /\ runPc \in {"idle", "launch", "probe", "start", "join", "kill",
                  "returned", "raised"}
    /\ error \in {"", "OSError", "KeyError", "TypeError"}
    /\ \A w \in Threads :
         pc[w] \in {"unstarted", "get", "query", "handler", "done", "dead"}
    /\ alive \subseteq Threads
    /\ unfinished_tasks \in 0..MaxTasks

\* =============================================================== claims
\* The worker threads of this run: range(thread_count).
Workers == 0..(config.thread_count - 1)

\* How often the handler of the item with this id has been called.
HandledCount(id) == Cardinality({i \in DOMAIN handled : handled[i].id = id})

\* How often the item with this id has been fetched by a worker.
FetchCount(id) == Cardinality({f \in fetches : f.id = id})

InQueue(id) == \E i \in DOMAIN scrape_queue : scrape_queue[i].id = id

\* run() is over: it returned or an exception left it.
RunEnded == runPc \in {"returned", "raised"}

\* The processes run() launched successfully.
Launched == {tor_processes[i] : i \in DOMAIN tor_processes}

KillCount(p) == Cardinality({i \in DOMAIN kills : kills[i] = p})

\* C1: when run() has returned, the handler of every item put on the queue
\* before run() was called has been invoked exactly once and the item is
\* no longer in the queue.
C1_EveryTaskHandledExactlyOnce ==
    runPc = "returned" =>
        \A id \in 1..preRun : HandledCount(id) = 1 /\ ~InQueue(id)

\* C2: when run() is over, every process it launched has been killed
\* exactly once, the number of kill calls is the number of launched
\* processes, and no launched process is alive.
C2_KillsEqualLaunches ==
    RunEnded =>
        /\ Len(kills) = Len(tor_processes)
        /\ \A p \in Launched : KillCount(p) = 1
        /\ alive = {}

\* C3: a step in which a worker's handler raises leaves that worker at the
\* top of its loop, ready to dequeue the next item, and changes neither
\* the other workers nor the queue.
C3_HandlerFaultIsolated ==
    [][\A w \in Threads :
         (/\ pc[w] = "handler"
          /\ Len(handled') = Len(handled) + 1
          /\ handled'[Len(handled')].worker = w
          /\ handled'[Len(handled')].outcome = "raises")
         => /\ pc'[w] = "get"
            /\ \A v \in Threads \ {w} : pc'[v] = pc[v]
            /\ scrape_queue' = scrape_queue]_vars

\* C4: once the launch of some circuit has failed, run() has ended with
\* the OSError, no worker thread was ever started, no item was dequeued or
\* fetched, no handler was invoked, and the queue holds every item put.
C4_LaunchFailureAbortsBeforeWorkers ==
    launch_failed # {} =>
        /\ runPc = "raised" /\ error = "OSError"
        /\ tor_threads = <<>>
        /\ \A w \in Threads : pc[w] = "unstarted"
        /\ fetches = {} /\ handled = <<>>
        /\ scrape_queue = enqueued

\* C4 witness: the launch of circuit 1 failed after circuit 0 was started,
\* with an item waiting in the queue.
C4_Witness ==
    /\ launch_failed = {1}
    /\ tor_processes = <<0>>
    /\ scrape_queue # <<>>

\* C5: when an exception has left run(), no process that run() launched
\* is still alive.
C5_TeardownOnEveryExit ==
    runPc = "raised" => \A p \in Launched : p \notin alive

\* C6: when run() has returned and the fetch of some item failed, the
\* handler of every other item put before the run has been invoked.
C6_FetchFailureDoesNotStopOthers ==
    runPc = "returned" =>
        \A f \in fetches :
            f.result = None =>
                \A id \in (1..preRun) \ {f.id} : HandledCount(id) >= 1

\* C7: an item is fetched at most once and never in the queue again after
\* it was dequeued; its handler is invoked at most once, with the item's
\* own url and context and with exactly what its fetch returned (None
\* when it failed, the bytes otherwise); and a fetched item whose handler
\* was not invoked yet is the one its worker is about to hand over.
C7_FailedFetchDelivered ==
    /\ \A f \in fetches :
         /\ FetchCount(f.id) = 1
         /\ ~InQueue(f.id)
         /\ \/ HandledCount(f.id) = 1
            \/ /\ HandledCount(f.id) = 0
               /\ pc[f.worker] = "handler"
               /\ scrape[f.worker].id = f.id
               /\ result[f.worker] = f.result
    /\ \A i \in DOMAIN handled :
         /\ HandledCount(handled[i].id) = 1
         /\ handled[i].url = enqueued[handled[i].id].url
         /\ handled[i].context = enqueued[handled[i].id].context
         /\ \E f \in fetches :
              /\ f.id = handled[i].id
              /\ f.result = handled[i].result
              /\ f.result \in {None, Response(handled[i].url)}

\* C7 witness: run() returned after one item's fetch failed and another's
\* succeeded, and both handlers were invoked with their results.
C7_Witness ==
    /\ runPc = "returned"
    /\ \E i, j \in DOMAIN handled :
         /\ handled[i].result = None
         /\ handled[j].result = Response(handled[j].url)

\* C8: a step in which the public-IP query fails goes on with the startup:
\* run() continues with the next circuit or with starting the threads.
C8_ProbeFailureNotFatal ==
    [][(/\ Len(probes') = Len(probes) + 1
        /\ probes'[Len(probes')].result = None)
       => runPc' \in {"launch", "start"}]_vars

\* C9: with public_ip_url empty or missing from the config, no public-IP
\* query is made and nothing but a failed launch makes run() raise.
C9_ProbeOptional ==
    ("public_ip_url" \notin DOMAIN config \/ config.public_ip_url = "") =>
        /\ probes = <<>>
        /\ error \in {"", "OSError"}

\* C10: whenever run() is killing processes, has killed one, or has
\* returned, every worker thread it started has terminated, and it
\* started all of them.
C10_ReturnsAfterWorkers ==
    (runPc \in {"kill", "returned"} \/ kills # <<>>) =>
        /\ Len(tor_threads) = config.thread_count
        /\ \A w \in Workers : Terminated(w)
        /\ \A w \in Threads \ Workers : pc[w] = "unstarted"

\* C10 witness: run() returned after two workers each handled an item.
C10_Witness ==
    /\ runPc = "returned"
    /\ \E i, j \in DOMAIN handled : handled[i].worker # handled[j].worker

\* The digit a decimal character denotes.
DigitValue ==
    [c \in {Digits[i] : i \in DOMAIN Digits} |->
        CHOOSE d \in 0..9 : Digits[d + 1] = c]

\* The number the first n characters of a string of decimal digits denote.
RECURSIVE ParsePrefix(_, _)
ParsePrefix(s, n) ==
    IF n = 0 THEN 0
    ELSE 10 * ParsePrefix(s, n - 1) + DigitValue[s[n]]

\* The number a string of decimal digits denotes.
ParseInt(s) == ParsePrefix(s, Len(s))

\* The startup of run() is complete: every circuit was launched.
StartupComplete == runPc \in {"start", "join", "kill", "returned"}

\* The launch request names index i: its SocksPort denotes
\* socks_port_offset + i, its ControlPort control_port_offset + i, and its
\* DataDirectory is data_directory followed by the digits of i.
RequestFor(l, i) ==
    LET n == Len(data_directory)
    IN /\ ParseInt(l.SocksPort) = socks_port_offset + i
       /\ ParseInt(l.ControlPort) = control_port_offset + i
       /\ Len(l.DataDirectory) > n
       /\ SubSeq(l.DataDirectory, 1, n) = data_directory
       /\ ParseInt(SubSeq(l.DataDirectory, n + 1, Len(l.DataDirectory))) = i

\* C11: run() makes its launch requests one at a time and never changes
\* one it made; the k-th request it makes names index k-1 (SocksPort
\* socks_port_offset + k-1, ControlPort control_port_offset + k-1,
\* DataDirectory data_directory followed by k-1); the requests made are
\* pairwise distinct in SocksPort, in ControlPort and in DataDirectory;
\* there are never more than thread_count of them and exactly thread_count
\* once the startup is complete.
C11_LaunchConfigs ==
    /\ [][launches' # launches =>
            /\ Len(launches') = Len(launches) + 1
            /\ SubSeq(launches', 1, Len(launches)) = launches
            /\ RequestFor(launches'[Len(launches')], Len(launches))]_vars
    /\ [](/\ Len(launches) <= config.thread_count
          /\ StartupComplete => Len(launches) = config.thread_count
          /\ \A j, k \in DOMAIN launches :
               j # k => /\ launches[j].SocksPort # launches[k].SocksPort
                        /\ launches[j].ControlPort # launches[k].ControlPort
                        /\ launches[j].DataDirectory #
                              launches[k].DataDirectory)

\* C11 witness: the startup is complete with the largest thread_count.
C11_Witness ==
    /\ StartupComplete
    /\ config.thread_count = MaxThreads
    /\ Len(launches) = MaxThreads

\* C12: as long as no item was ever put on the queue, no worker has
\* fetched anything and no handler was invoked, a started worker is at its
\* first dequeue attempt or has returned from it on the empty queue, and
\* when run() has returned every worker has returned and each of the
\* thread_count processes was killed.
C12_EmptyQueueRun ==
    enqueued = <<>> =>
        /\ fetches = {} /\ handled = <<>>
        /\ \A w \in Threads : pc[w] \in {"unstarted", "get", "done"}
        /\ runPc = "returned" =>
             /\ \A w \in Workers : pc[w] = "done"
             /\ Len(kills) = config.thread_count
             /\ \A w \in Workers : KillCount(w) = 1
             /\ alive = {}

\* C12 witness: run() returned with the largest thread_count and nothing
\* was ever put on the queue.
C12_Witness ==
    /\ runPc = "returned"
    /\ enqueued = <<>>
    /\ config.thread_count = MaxThreads

\* C13: with one worker and every item put before run() was called, when
\* run() has returned the handler invocations are those of the items in
\* enqueue order, one each, each with what the fetch of its own item
\* returned.
C13_SingleWorkerSequence ==
    (/\ runPc = "returned"
     /\ config.thread_count = 1
     /\ preRun = Len(enqueued)) =>
        /\ Len(handled) = Len(enqueued)
        /\ \A i \in DOMAIN handled :
             /\ handled[i].id = i
             /\ handled[i].url = enqueued[i].url
             /\ \E f \in fetches : f.id = i /\ f.result = handled[i].result

\* The phase of the run: 0 idle, 1 starting circuits, 2 workers running
\* (being started or joined), 3 killing the circuit processes, 4 stopped.
Phase(p) ==
    CASE p = "idle" -> 0
      [] p \in {"launch", "probe"} -> 1
      [] p \in {"start", "join"} -> 2
      [] p = "kill" -> 3
      [] p \in {"returned", "raised"} -> 4

\* C15: the run moves through its phases in order, one phase at a time,
\* except that an exception while starting circuits leads straight to
\* stopped; once stopped it stays as it stopped.  When a worker thread has
\* been started, all thread_count circuits were launched and are in
\* tor_processes; when a process has been killed, every worker has
\* terminated; and when an exception left run(), it did so while starting
\* circuits: no worker was ever started and no process killed.
C15_PhaseOrder ==
    /\ [](/\ (\E w \in Threads : pc[w] # "unstarted") =>
               /\ Phase(runPc) >= 2
               /\ Len(tor_processes) = config.thread_count
               /\ Len(launches) = config.thread_count
          /\ (runPc \in {"kill", "returned"} \/ kills # <<>>) =>
               /\ runPc # "raised"
               /\ \A w \in Workers : Terminated(w)
          /\ runPc = "raised" =>
               /\ error # ""
               /\ \A w \in Threads : pc[w] = "unstarted"
               /\ kills = <<>>
          /\ runPc = "returned" => error = "")
    /\ [][/\ Phase(runPc') \in {Phase(runPc), Phase(runPc) + 1}
             \/ (Phase(runPc) = 1 /\ runPc' = "raised")
          /\ Phase(runPc) = 4 => runPc' = runPc]_vars

\* C15 witness: run() returned after its workers handled an item, with a
\* public-IP query made for every circuit on the way.
C15_Witness ==
    /\ runPc = "returned"
    /\ Len(probes) = config.thread_count
    /\ handled # <<>>

\* C15 second case: the startup failed at the public-IP query of the
\* second circuit.
C15_WitnessAbort ==
    /\ runPc = "raised"
    /\ Len(probes) = 2

\* C16: in a closed batch, once run() has started its circuits and goes on
\* to start the workers, it eventually returns, every worker it started
\* having left its loop.
C16_RunTerminates ==
    (runPc = "start") ~>
        (runPc = "returned" /\ \A w \in Workers : Terminated(w))

\* C16 witness: run() returned with the largest thread_count after every
\* item of a full batch was handled and every worker left its loop on the
\* empty queue.
C16_Witness ==
    /\ runPc = "returned"
    /\ config.thread_count = MaxThreads
    /\ Len(enqueued) = MaxTasks
    /\ Len(handled) = MaxTasks
    /\ \A w \in Workers : pc[w] = "done"

\* How many items have been dequeued so far.
DequeuedCount == Len(enqueued) - Len(scrape_queue)

\* C17: the queue always holds the items put last, in the order they were
\* put, so the items dequeued so far are the first ones put; and the k-th
\* dequeue of the run, by whichever worker, takes the k-th item put.
C17_FifoDequeue ==
    /\ [](/\ DequeuedCount >= 0
          /\ scrape_queue =
                SubSeq(enqueued, DequeuedCount + 1, Len(enqueued)))
    /\ [][\A w \in Threads :
            (pc[w] = "get" /\ pc'[w] = "query") =>
                /\ scrape'[w] = enqueued[DequeuedCount + 1]
                /\ scrape_queue' = Tail(scrape_queue)
                /\ \A i \in DOMAIN scrape_queue' :
                     scrape_queue'[i].id > scrape'[w].id]_vars

\* C17 witness: two workers hold the two items of the queue, the second
\* worker the first item.
C17_Witness ==
    /\ Len(enqueued) >= 2
    /\ pc[0] \in {"query", "handler"} /\ scrape[0].id = 2
    /\ pc[1] \in {"query", "handler"} /\ scrape[1].id = 1

\* C18: a fetch a worker makes goes through the port that the launch
\* request for the worker's own index names as SocksPort; every fetch made
\* by worker i went through socks_port_offset + i, with the process of
\* index i launched; and two fetches of different workers never went
\* through the same port.
C18_OwnCircuitOnly ==
    /\ [][\A f \in fetches' \ fetches :
            /\ f.worker + 1 \in DOMAIN launches
            /\ f.socks_port = ParseInt(launches[f.worker + 1].SocksPort)]_vars
    /\ [](/\ \A f \in fetches :
               /\ f.worker \in Launched
               /\ f.socks_port = socks_port_offset + f.worker
          /\ \A f, g \in fetches :
               f.worker # g.worker => f.socks_port # g.socks_port)

\* C18 witness: two different workers have each made a fetch.
C18_Witness ==
    \E f, g \in fetches : f.worker # g.worker /\ f.id # g.id

\* C19: a step that is not an add_scrape call leaves the queue as it is or
\* removes its head item: the queue never grows and no item comes back;
\* and an item a worker has taken or handled is not in the queue.
C19_QueueOnlyShrinks ==
    /\ [][enqueued' = enqueued =>
            /\ \/ scrape_queue' = scrape_queue
               \/ /\ scrape_queue # <<>>
                  /\ scrape_queue' = Tail(scrape_queue)
            /\ Len(scrape_queue') <= Len(scrape_queue)]_vars
    /\ [](/\ \A w \in Threads :
               pc[w] \in {"query", "handler"} => ~InQueue(scrape[w].id)
          /\ \A i \in DOMAIN handled : ~InQueue(handled[i].id))

\* C19 witness: run() returned with the queue empty after a full batch was
\* put before the run and one of the fetches failed.
C19_Witness ==
    /\ runPc = "returned"
    /\ preRun = MaxTasks
    /\ scrape_queue = <<>>
    /\ \E f \in fetches : f.result = None

\* C20: once run() is killing processes or has returned, no worker will
\* dequeue again, so an item in the queue then stays there: it was never
\* taken by a worker, never fetched and its handler never invoked.
C20_LateTaskStaysQueued ==
    /\ [](runPc \in {"kill", "returned"} =>
            /\ \A w \in Workers : Terminated(w)
            /\ \A i \in DOMAIN scrape_queue :
                 /\ FetchCount(scrape_queue[i].id) = 0
                 /\ HandledCount(scrape_queue[i].id) = 0
                 /\ \A w \in Threads : scrape[w].id # scrape_queue[i].id)
    /\ [][(runPc = "kill" \/ runPc = "returned") =>
            /\ handled' = handled
            /\ Len(scrape_queue') >= Len(scrape_queue)
            /\ \A i \in DOMAIN scrape_queue :
                 scrape_queue[i] = scrape_queue'[i]]_vars

\* C20 witness: run() returned without any handler fault, every worker
\* left its loop on the empty queue, every item put before the run was
\* handled, and an item put after run() was called is still in the queue.
C20_Witness ==
    /\ runPc = "returned"
    /\ \A w \in Workers : pc[w] = "done"
    /\ preRun >= 1
    /\ \A id \in 1..preRun : HandledCount(id) = 1
    /\ \E i \in DOMAIN scrape_queue :
         /\ scrape_queue[i].id > preRun
         /\ HandledCount(scrape_queue[i].id) = 0

====
